---- MODULE Spec2Model ----
(***************************************************************************)
(* A model of the fragility simulation of sovereign-architect:             *)
(*   core/lagrangian.rs         compute_fragility (the scoring function)   *)
(*   simulation/monte_carlo.rs  run_simulation (shocks, parallel map,      *)
(*                              statistics)                                *)
(*                                                                         *)
(* f64 values are modelled as fixed-point numbers with Scale units per 1.0 *)
(* plus the IEEE-754 special values NaN, +inf and -inf, because the code   *)
(* reaches them (1.0 / 0.0, inf / inf, NaN.max(0.0)).  The sign of zero is *)
(* not modelled: every place where -0.0 could differ from 0.0 in this code *)
(* (1.0 / liquidity_coverage) ends in the same result after normalisation. *)
(*                                                                         *)
(* Every arithmetic operator comes in two layers: XOf computes on values,  *)
(* and X binds its operands once (x \in {a}) before applying XOf, so that  *)
(* a nested expression is evaluated once per use also inside ENABLED,      *)
(* where TLC does not keep the value of an operator argument.              *)
(***************************************************************************)
EXTENDS Integers, Sequences, FiniteSets, TLC

VARIABLES inputs, runs, bank, config, score, sample, stats, zk, net

vars == <<inputs, runs, bank, config, score, sample, stats, zk, net>>

\* ------------------------------------------------------------------ bounds

\* Fixed-point resolution of the f64 model: Scale units per 1.0.
Scale == 1000

\* The largest finite magnitude of the f64 model (2 000 000.0); a product
\* beyond it overflows to an infinity, as f64 does beyond f64::MAX.
MaxFin == 2000000 * Scale

\* ------------------------------------------------------------- f64 values

Fin(x) == [k |-> "fin", v |-> x]
NaN == [k |-> "nan", v |-> 0]
PInf == [k |-> "pinf", v |-> 0]
NInf == [k |-> "ninf", v |-> 0]

\* n.0 and n/d as f64 literals
Lit(n) == Fin(n * Scale)
Frac(n, d) == Fin((n * Scale) \div d)

IsFin(a) == a.k = "fin"
IsNaN(a) == a.k = "nan"

Abs(x) == IF x < 0 THEN -x ELSE x

\* -1, 0, 1: the sign of an f64 that is not NaN
Sign(a) ==
    CASE a.k = "pinf" -> 1
      [] a.k = "ninf" -> -1
      [] OTHER -> IF a.v > 0 THEN 1 ELSE IF a.v < 0 THEN -1 ELSE 0

InfOf(s) == IF s > 0 THEN PInf ELSE NInf

FNegOf(a) ==
    CASE a.k = "fin" -> Fin(-a.v)
      [] a.k = "pinf" -> NInf
      [] a.k = "ninf" -> PInf
      [] OTHER -> NaN

\* -a with the operand evaluated once
FNeg(a) == CHOOSE v \in {FNegOf(x) : x \in {a}} : TRUE

\* a + b
FAddOf(a, b) ==
    IF IsNaN(a) \/ IsNaN(b) THEN NaN
    ELSE IF IsFin(a) /\ IsFin(b) THEN Fin(a.v + b.v)
    ELSE IF IsFin(a) THEN b
    ELSE IF IsFin(b) THEN a
    ELSE IF a.k = b.k THEN a
    ELSE NaN

\* a + b with each operand evaluated once
FAdd(a, b) == CHOOSE v \in {FAddOf(x, y) : x \in {a}, y \in {b}} : TRUE

\* a - b
FSub(a, b) == FAdd(a, FNeg(b))

\* |x * y| / Scale for naturals x <= y, or -1 when it exceeds MaxFin; the
\* product is split so that no intermediate value leaves the integer range
MulMag(x, y) ==
    LET q == y \div Scale
        r == y % Scale
    IN IF x > 2000 * Scale THEN -1
       ELSE IF q > 0 /\ x > MaxFin \div q THEN -1
       ELSE IF x * q + (x * r) \div Scale > MaxFin THEN -1
       ELSE x * q + (x * r) \div Scale

\* a * b
FMulOf(a, b) ==
    IF IsNaN(a) \/ IsNaN(b) THEN NaN
    ELSE IF IsFin(a) /\ IsFin(b)
         THEN LET x == IF Abs(a.v) <= Abs(b.v) THEN Abs(a.v) ELSE Abs(b.v)
                  y == IF Abs(a.v) <= Abs(b.v) THEN Abs(b.v) ELSE Abs(a.v)
                  m == MulMag(x, y)
              IN IF m < 0 THEN InfOf(Sign(a) * Sign(b))
                 ELSE Fin(Sign(a) * Sign(b) * m)
    ELSE IF Sign(a) = 0 \/ Sign(b) = 0 THEN NaN
    ELSE InfOf(Sign(a) * Sign(b))

\* a * b with each operand evaluated once
FMul(a, b) == CHOOSE v \in {FMulOf(x, y) : x \in {a}, y \in {b}} : TRUE

\* |x / y| * Scale for naturals x and y > 0, or -1 when it exceeds MaxFin;
\* the quotient is split so that no intermediate value leaves the integer range
DivMag(x, y) ==
    LET q == x \div y
        r == x % y
    IN IF q > MaxFin \div Scale THEN -1
       ELSE IF y > 2000 * Scale THEN q * Scale + r \div (y \div Scale)
       ELSE q * Scale + (r * Scale) \div y

\* a / b
FDivOf(a, b) ==
    IF IsNaN(a) \/ IsNaN(b) THEN NaN
    ELSE IF IsFin(a) /\ IsFin(b)
         THEN IF b.v # 0
              THEN LET m == DivMag(Abs(a.v), Abs(b.v))
                   IN IF m < 0 THEN InfOf(Sign(a) * Sign(b))
                      ELSE Fin(Sign(a) * Sign(b) * m)
              ELSE IF a.v = 0 THEN NaN
              ELSE InfOf(Sign(a))
    ELSE IF IsFin(a) THEN Fin(0)
    ELSE IF IsFin(b) THEN InfOf(Sign(a) * (IF Sign(b) < 0 THEN -1 ELSE 1))
    ELSE NaN

\* a / b with each operand evaluated once
FDiv(a, b) == CHOOSE v \in {FDivOf(x, y) : x \in {a}, y \in {b}} : TRUE

\* a <= b, a < b: false when either side is NaN
FLeOf(a, b) ==
    /\ ~IsNaN(a)
    /\ ~IsNaN(b)
    /\ \/ a.k = "ninf"
       \/ b.k = "pinf"
       \/ IsFin(a) /\ IsFin(b) /\ a.v <= b.v

\* a <= b with each operand evaluated once
FLe(a, b) == CHOOSE v \in {FLeOf(x, y) : x \in {a}, y \in {b}} : TRUE

FLt(a, b) == FLe(a, b) /\ a # b

\* f64::max and f64::min: a NaN operand is ignored
FMaxOf(a, b) ==
    IF IsNaN(a) THEN b
    ELSE IF IsNaN(b) THEN a
    ELSE IF FLe(a, b) THEN b ELSE a

\* f64::max with each operand evaluated once
FMax(a, b) == CHOOSE v \in {FMaxOf(x, y) : x \in {a}, y \in {b}} : TRUE

FMinOf(a, b) ==
    IF IsNaN(a) THEN b
    ELSE IF IsNaN(b) THEN a
    ELSE IF FLe(a, b) THEN a ELSE b

\* f64::min with each operand evaluated once
FMin(a, b) == CHOOSE v \in {FMinOf(x, y) : x \in {a}, y \in {b}} : TRUE

\* e^n for a natural n, in fixed point
RECURSIVE ExpInt(_)
ExpInt(n) == IF n = 0 THEN Scale ELSE (ExpInt(n - 1) * 2718) \div 1000

\* e^(x / Scale) for 0 <= x < 7 * Scale: the integer part by ExpInt, the
\* fraction by the series 1 + f + f^2/2 + f^3/6 + f^4/24 (Horner form)
ExpPos(x) ==
    LET n == x \div Scale
        f == x % Scale
        t4 == Scale + f \div 4
        t3 == Scale + (f * t4) \div (3 * Scale)
        t2 == Scale + (f * t3) \div (2 * Scale)
        t1 == Scale + (f * t2) \div Scale
    IN (ExpInt(n) * t1) \div Scale

\* the largest r with r * r <= x, searched between lo and hi
RECURSIVE SqrtSearch(_, _, _)
SqrtSearch(x, lo, hi) ==
    IF lo >= hi THEN lo
    ELSE CHOOSE r \in {IF MulMag(mid, mid) >= 0 /\ MulMag(mid, mid) <= x
                       THEN SqrtSearch(x, mid, hi)
                       ELSE SqrtSearch(x, lo, mid - 1) :
                       mid \in {(lo + hi + 1) \div 2}} : TRUE

\* f64::sqrt
FSqrtOf(a) ==
    CASE a.k = "nan" -> NaN
      [] a.k = "pinf" -> PInf
      [] a.k = "ninf" -> NaN
      [] OTHER -> IF a.v < 0 THEN NaN ELSE Fin(SqrtSearch(a.v, 0, 2000 * Scale))

\* f64::sqrt with the operand evaluated once
FSqrt(a) == CHOOSE v \in {FSqrtOf(x) : x \in {a}} : TRUE

\* f64::exp; e^x is below the resolution of the model for x <= -7, and no
\* input of the model needs it above 7
FExpOf(a) ==
    CASE a.k = "nan" -> NaN
      [] a.k = "pinf" -> PInf
      [] a.k = "ninf" -> Fin(0)
      [] OTHER ->
           IF a.v <= -7 * Scale THEN Fin(0)
           ELSE IF a.v >= 7 * Scale THEN PInf
           ELSE IF a.v >= 0 THEN Fin(ExpPos(a.v))
           ELSE Fin((Scale * Scale) \div ExpPos(-a.v))

\* f64::exp with the operand evaluated once
FExp(a) == CHOOSE v \in {FExpOf(x) : x \in {a}} : TRUE

\* --------------------------------------------------- core/lagrangian.rs

\* struct BankState
BankState(t, a, l, e) ==
    [tier1_capital |-> t, total_assets |-> a,
     liquidity_coverage |-> l, entropy_index |-> e]

\* struct LagrangianConfig
LagrangianConfig(s, m) ==
    [lambda_sensitivity |-> s, regulatory_min_capital |-> m]

\* impl Default for LagrangianConfig: 2.0 and 0.08
DefaultLagrangianConfig == LagrangianConfig(Lit(2), Frac(8, 100))

\* STEP 1: the capital constraint distance
ConstraintDistance(b, c) ==
    FSub(b.tier1_capital, FMul(b.total_assets, c.regulatory_min_capital))

\* STEP 2: the multiplier, from the value of constraint_distance
LambdaOf(constraint_distance, c) ==
    IF FLe(constraint_distance, Lit(0))
    THEN Lit(1000)
    ELSE FMul(c.lambda_sensitivity, FExp(FMul(Lit(-1), constraint_distance)))

\* let constraint_distance = ...; let lambda = ...
Lambda(b, c) ==
    CHOOSE v \in {LambdaOf(d, c) : d \in {ConstraintDistance(b, c)}} : TRUE

\* a faulty variant of EntropyPenalty: the weight is 15 instead of 1.5
EntropyPenaltyTenfold(b) == FMul(b.entropy_index, Lit(15))

\* STEP 3
EntropyPenalty(b) == FMul(b.entropy_index, Frac(3, 2))

\* STEP 4
LiquidityStress(b) == FMul(FDiv(Lit(1), b.liquidity_coverage), Lit(10))

\* STEP 5
RawScore(b, c) == FAdd(FAdd(Lambda(b, c), EntropyPenalty(b)), LiquidityStress(b))

\* STEP 6, from the value of raw_score
NormalizedScoreOf(raw_score) ==
    FMul(Lit(100), FDiv(raw_score, FAdd(raw_score, Lit(50))))

\* let raw_score = ...; let normalized_score = ...
NormalizedScore(b, c) ==
    CHOOSE v \in {NormalizedScoreOf(raw) : raw \in {RawScore(b, c)}} : TRUE

\* a faulty variant of compute_fragility: the final clamp is left out
compute_fragility_unclamped(b, c) == NormalizedScore(b, c)

\* compute_fragility: the normalised score clamped to [0, 100]
compute_fragility(b, c) == FMin(FMax(NormalizedScore(b, c), Lit(0)), Lit(100))

\* capital_adequacy_ratio: tier1_capital / total_assets
capital_adequacy_ratio(b) == FDiv(b.tier1_capital, b.total_assets)

\* ------------------------------------------- simulation/monte_carlo.rs

\* Most paths of one run.
MaxPaths == 2

\* Most threads of the rayon pool (the host's available parallelism).
MaxWorkers == 2

\* Largest concurrency hint (num_threads) tried.
MaxHint == 1

\* Largest score sample given to the statistics on their own.
MaxSample == 101

Runs == {1, 2}
Workers == 1..MaxWorkers

\* StdRng::seed_from_u64 and one step of the generator: a full-period
\* congruential stream stands for the ChaCha stream of StdRng
SeedFromU64(seed) == seed % 16
NextRng(s) == (5 * s + 3) % 16

\* the standard-normal deviate read off a generator state
Deviate(s) == Lit((s % 5) - 2)

\* Normal::new(0.0, shock_size) fails on a standard deviation that is not
\* finite, and the code unwraps the result
NormalNewFails(sd) == ~IsFin(sd)

\* normal.sample(&mut rng) on the state s the generator has stepped to
NormalSample(s, sd) == FAdd(Lit(0), FMul(sd, Deviate(s)))

\* one shock tuple: four samples drawn one after the other
DrawTuple(s, sd) ==
    LET s1 == NextRng(s)
        s2 == NextRng(s1)
        s3 == NextRng(s2)
        s4 == NextRng(s3)
    IN [shock |-> <<NormalSample(s1, sd), NormalSample(s2, sd),
                    NormalSample(s3, sd), NormalSample(s4, sd)>>,
        rng |-> s4]

\* a faulty variant of PerturbField: the clamp at zero is left out
PerturbFieldUnclamped(x, sh) ==
    FMul(x, FAdd(Lit(1), FMul(sh, Frac(1, 100))))

\* (field * (1.0 + shock * 0.01)).max(0.0)
PerturbField(x, sh) ==
    FMax(FMul(x, FAdd(Lit(1), FMul(sh, Frac(1, 100)))), Lit(0))

\* The shocked BankState of one path.  run_simulation names the fields
\* assets, liabilities, equity, leverage; compute_fragility reads
\* total_assets, liquidity_coverage, tier1_capital, entropy_index.  The model
\* keeps the scoring names: the shock components <<assets, liab, equity, lev>>
\* act on total_assets, liquidity_coverage, tier1_capital and entropy_index.
Perturb(base, sh) ==
    [total_assets |-> PerturbField(base.total_assets, sh[1]),
     liquidity_coverage |-> PerturbField(base.liquidity_coverage, sh[2]),
     tier1_capital |-> PerturbField(base.tier1_capital, sh[3]),
     entropy_index |-> PerturbField(base.entropy_index, sh[4])]

\* The position (from 1) of element i after a stable ascending sort: the
\* elements below it, and its equals that stand before it, come first.
RankAscending(s, i) ==
    Cardinality({j \in 1..Len(s) : FLt(s[j], s[i]) \/ (s[j] = s[i] /\ j < i)}) + 1

\* a faulty variant of SortAscending: the comparison is reversed
SortDescending(s) ==
    LET rank == [i \in 1..Len(s) |->
                   Cardinality({j \in 1..Len(s) :
                                  FLt(s[i], s[j]) \/ (s[j] = s[i] /\ j < i)}) + 1]
    IN [k \in 1..Len(s) |-> s[CHOOSE i \in 1..Len(s) : rank[i] = k]]

\* sorted.sort_by(|a, b| a.partial_cmp(b).unwrap()): the stable ascending
\* sort, given by the position it moves every element to
SortAscending(s) ==
    LET rank == [i \in 1..Len(s) |-> RankAscending(s, i)]
    IN [k \in 1..Len(s) |-> s[CHOOSE i \in 1..Len(s) : rank[i] = k]]

\* partial_cmp(..).unwrap() panics when it compares a NaN
SortPanics(s) == Len(s) >= 2 /\ \E i \in 1..Len(s) : IsNaN(s[i])

\* s[lo] + ... + s[hi]; the fixed-point sum does not depend on the order of
\* the additions, so the range is halved to keep the evaluation shallow
RECURSIVE FSumRange(_, _, _)
FSumRange(s, lo, hi) ==
    IF lo > hi THEN Lit(0)
    ELSE IF lo = hi THEN FAdd(Lit(0), s[lo])
    ELSE FAdd(FSumRange(s, lo, (lo + hi) \div 2),
              FSumRange(s, (lo + hi) \div 2 + 1, hi))

\* iter().sum::<f64>()
FSum(s) == FSumRange(s, 1, Len(s))

\* fragilities.iter().sum::<f64>() / fragilities.len() as f64
Mean(fr) == FDiv(FSum(fr), Lit(Len(fr)))

\* the population variance
Variance(fr) ==
    LET mean == Mean(fr)
    IN FDiv(FSum([i \in 1..Len(fr) |->
                    FMul(FSub(fr[i], mean), FSub(fr[i], mean))]),
            Lit(Len(fr)))

\* a faulty variant of VarIdx: the product is rounded up
VarIdxCeil(pct, n) == (pct * n + 99) \div 100

\* (q * fragilities.len() as f64) as usize for q = pct / 100: the f64
\* product of 0.95 or 0.99 with n rounds to the exact quotient for every n
\* of the model, so the truncation is the integer quotient
VarIdx(pct, n) == (pct * n) \div 100

\* sorted.len() - 1 underflows on an empty vector (a panic in a debug build,
\* usize::MAX and then an index out of bounds in a release build)
StatsPanics(fr) == Len(fr) = 0 \/ SortPanics(fr)

Min(a, b) == IF a <= b THEN a ELSE b

\* a faulty variant of Summarize: the scores are sorted in place
SummarizeSortedInPlace(fr) ==
    LET sorted == SortAscending(fr)
        n == Len(fr)
    IN [fragilities |-> sorted,
        mean |-> Mean(fr),
        std_dev |-> FSqrt(Variance(fr)),
        var_95 |-> sorted[Min(VarIdx(95, n), n - 1) + 1],
        var_99 |-> sorted[Min(VarIdx(99, n), n - 1) + 1],
        max_fragility |-> sorted[n]]

\* the statistics and the SimulationResult of a non-empty score vector;
\* indices are 1-based here, 0-based in the code
Summarize(fr) ==
    LET sorted == SortAscending(fr)
        n == Len(fr)
    IN [fragilities |-> fr,
        mean |-> Mean(fr),
        std_dev |-> FSqrt(Variance(fr)),
        var_95 |-> sorted[Min(VarIdx(95, n), n - 1) + 1],
        var_99 |-> sorted[Min(VarIdx(99, n), n - 1) + 1],
        max_fragility |-> sorted[n]]

NoResult ==
    [fragilities |-> <<>>, mean |-> NaN, std_dev |-> NaN,
     var_95 |-> NaN, var_99 |-> NaN, max_fragility |-> NaN]

Empty == [k |-> "empty", v |-> 0]
NoState == BankState(Empty, Empty, Empty, Empty)

\* ------------------------------------------------------ proofs/prover.rs

\* The bank state as prove reads it: assets, liabilities, equity, leverage.
ProverState(a, l, e, lv) ==
    [assets |-> a, liabilities |-> l, equity |-> e, leverage |-> lv]

\* the value the model lets u64::MAX stand for
U64Max == MaxFin \div Scale

\* `x as u64`: NaN and negative values give 0, the fraction is cut off, and
\* a value beyond the range saturates
AsU64(a) ==
    CASE a.k = "nan" -> 0
      [] a.k = "ninf" -> 0
      [] a.k = "pinf" -> U64Max
      [] OTHER -> IF a.v < 0 THEN 0 ELSE a.v \div Scale

\* The assignment of the FragilityCircuit that prove builds.  Scalar::from
\* embeds a u64 in the scalar field of BLS12-381; the sums and products of
\* the three constraints stay below 2^128, far below the field's modulus, so
\* field arithmetic on them is integer arithmetic.
Witness(state, fragility_score) ==
    [assets |-> AsU64(state.assets),
     liabilities |-> AsU64(state.liabilities),
     equity |-> AsU64(state.equity),
     leverage |-> AsU64(FMul(state.leverage, Lit(100))),
     fragility |-> AsU64(FMul(fragility_score, Lit(1000)))]

\* cs.enforce(a, b, c): a * b = c
Enforce(a, b, c) == a * b = c

\* FragilityCircuit::synthesize: balance_sheet, leverage_ratio and
\* fragility_calculation
Satisfied(w) ==
    /\ Enforce(w.liabilities + w.equity, 1, w.assets)
    /\ Enforce(w.leverage, w.equity, w.liabilities)
    /\ Enforce(w.leverage, 1, w.fragility)

\* the public input that verify computes from the score
PublicInput(fragility_score) == AsU64(FMul(fragility_score, Lit(1000)))

\* FragilityProver::prove.  create_random_proof does not test the
\* assignment: it returns a proof for any full assignment, and the proof is
\* valid for the public input it was made with exactly when the assignment
\* satisfies the circuit (completeness and soundness of Groth16).
prove(state, fragility_score) ==
    [ok |-> TRUE,
     valid |-> Satisfied(Witness(state, fragility_score)),
     public |-> Witness(state, fragility_score).fragility]

\* FragilityProver::verify: Ok(true) for a valid proof checked against the
\* public input it was made with, Ok(false) otherwise
verify(proof, fragility_score) ==
    [ok |-> TRUE,
     value |-> proof.valid /\ proof.public = PublicInput(fragility_score)]

NoProof == [ok |-> FALSE, valid |-> FALSE, public |-> 0]
NoVerdict == [ok |-> FALSE, value |-> FALSE]

\* no prover has been set up
NoProver ==
    [pc |-> "none", state |-> ProverState(Empty, Empty, Empty, Empty),
     fragility_score |-> Empty, proof |-> NoProof,
     verify_score |-> Empty, verified |-> NoVerdict]

\* -------------------------------------------------- network/ingestion.rs

\* Most packets sent through the sender of get_sender.
MaxSends == 2

\* mpsc::channel(1000)
ChannelCapacity == 1000

\* struct DataPacket, by its timestamp and its fragility; the f64 fields of
\* its state are serialised the way fragility is
DataPacket(ts, f) == [timestamp |-> ts, fragility |-> f]

JsonNull == [k |-> "null", v |-> 0]

\* bytes that are not the JSON of a DataPacket
Garbage == [json |-> FALSE, timestamp |-> 0, fragility |-> JsonNull]

\* serde_json::to_vec(&packet): a number that is not finite is written as
\* null; serialising a DataPacket does not fail
to_vec(packet) ==
    [json |-> TRUE,
     timestamp |-> packet.timestamp,
     fragility |-> IF IsFin(packet.fragility) THEN packet.fragility ELSE JsonNull]

\* serde_json::from_slice::<DataPacket>(&message.data): an error on bytes
\* that are not JSON and on null where an f64 is expected
from_slice(data) ==
    IF data.json /\ data.fragility # JsonNull
    THEN [ok |-> TRUE, packet |-> DataPacket(data.timestamp, data.fragility)]
    ELSE [ok |-> FALSE, packet |-> DataPacket(0, Empty)]

\* what process_events has returned: nothing yet, Ok(Some(packet)) or Err
NoReturn == [kind |-> "none", packet |-> DataPacket(0, Empty)]
SomeReturn(packet) == [kind |-> "some", packet |-> packet]
ErrReturn == [kind |-> "err", packet |-> DataPacket(0, Empty)]

\* a faulty variant of OnMessage: Ok(None) is returned for an undecodable message
OnMessageOrNone(data) ==
    IF from_slice(data).ok
    THEN SomeReturn(from_slice(data).packet)
    ELSE [kind |-> "ok_none", packet |-> DataPacket(0, Empty)]

\* lines 127-135: a gossip message returns its packet if it decodes, and is
\* passed over otherwise
OnMessage(data) ==
    IF from_slice(data).ok THEN SomeReturn(from_slice(data).packet) ELSE NoReturn

\* lines 139-143: self.publish(p).await? returns the error of a failed
\* publish and goes on with the loop otherwise
OnLocal(packet, published) == IF published THEN NoReturn ELSE ErrReturn

NoEvent == [kind |-> "none", data |-> Garbage, published |-> FALSE]

\* no engine has been created
NoEngine ==
    [pc |-> "none", chan |-> <<>>, sent |-> <<>>, taken |-> <<>>,
     topic |-> <<>>, last |-> NoEvent, ret |-> NoReturn]

\* ------------------------------------------------------- state of a run

\* A run before its first statement.
NewRun ==
    [pc |-> "idle", num_threads |-> 0, pool |-> 0, rng |-> 0, shocks |-> <<>>,
     claimed |-> {}, worker |-> [w \in Workers |-> 0],
     shocked |-> [w \in Workers |-> NoState],
     slots |-> <<>>, writes |-> <<>>,
     out_of_order |-> FALSE, result |-> NoResult]

Finished(run) == run.pc \in {"done", "panicked"}

\* a faulty variant of ShocksCollected: the shocks are consumed while being drawn
ShocksCollectedEarly(run, n) == Len(run.shocks) >= 1 \/ n = 0

\* the shocks vector is complete: .collect() has returned
ShocksCollected(run, n) == Len(run.shocks) = n

\* a faulty variant of Unclaimed: an item can be handed out again
UnclaimedOrTaken(run) == 1..Len(run.shocks)

\* the items rayon has not handed to a worker yet
Unclaimed(run) == (1..Len(run.shocks)) \ run.claimed

\* a faulty variant of SlotOf: the scores are collected in completion order
SlotOfCompletion(run, i) ==
    Cardinality({j \in 1..Len(run.slots) : run.writes[j] > 0}) + 1

\* the slot of the collected vector that the score of path i is written to
SlotOf(run, i) == i

\* a faulty variant of JoinReady: the collect returns as soon as no thread is busy
JoinReadyEarly(run) == \A w \in Workers : run.worker[w] = 0

\* the parallel collect returns when every item has been consumed
JoinReady(run) ==
    /\ run.claimed = 1..Len(run.shocks)
    /\ \A w \in Workers : run.worker[w] = 0

\* a faulty variant of CanFinish: a thread delivers its score only after the
\* scores of all earlier paths have been delivered
CanFinishInOrder(run, w) ==
    /\ run.worker[w] # 0
    /\ \A j \in 1..(run.worker[w] - 1) : run.writes[j] > 0

\* a thread that holds a path can score it and deliver the score: the
\* closure reads only its own item and the shared read-only inputs
CanFinish(run, w) == run.worker[w] # 0

\* ------------------------------------------------------------- actions

\* run_simulation is entered (the second run after the first has ended);
\* lines 64-68: the generator is seeded and the distribution built
Start(r) ==
    /\ runs[r].pc = "idle"
    /\ \A q \in Runs : q < r => Finished(runs[q])
    /\ \E h \in 0..MaxHint, p \in Workers :
         runs' = [runs EXCEPT ![r] =
                    [@ EXCEPT !.num_threads = h, !.pool = p,
                              !.rng = SeedFromU64(inputs.seed),
                              !.pc = IF NormalNewFails(inputs.shock_size)
                                     THEN "panicked" ELSE "gen"]]
    /\ UNCHANGED <<inputs, bank, config, score, sample, stats, zk, net>>

\* lines 70-79: one more shock tuple is drawn
GenerateShock(r) ==
    /\ runs[r].pc = "gen"
    /\ Len(runs[r].shocks) < inputs.num_simulations
    /\ LET d == DrawTuple(runs[r].rng, inputs.shock_size)
       IN runs' = [runs EXCEPT ![r] =
                     [@ EXCEPT !.shocks = Append(@, d.shock), !.rng = d.rng]]
    /\ UNCHANGED <<inputs, bank, config, score, sample, stats, zk, net>>

\* lines 82-83: the parallel iterator over the collected shocks starts
StartParallel(r) ==
    /\ runs[r].pc = "gen"
    /\ ShocksCollected(runs[r], inputs.num_simulations)
    /\ runs' = [runs EXCEPT ![r] =
                  [@ EXCEPT !.pc = "eval",
                            !.slots = [i \in 1..Len(runs[r].shocks) |-> Empty],
                            !.writes = [i \in 1..Len(runs[r].shocks) |-> 0]]]
    /\ UNCHANGED <<inputs, bank, config, score, sample, stats, zk, net>>

\* lines 84-90: an idle thread of the pool takes path i and builds its
\* shocked state
Claim(r, w, i) ==
    /\ runs[r].pc = "eval"
    /\ w <= runs[r].pool
    /\ runs[r].worker[w] = 0
    /\ i \in Unclaimed(runs[r])
    /\ runs' = [runs EXCEPT ![r] =
                  [@ EXCEPT !.claimed = @ \cup {i},
                            !.worker[w] = i,
                            !.shocked[w] = Perturb(inputs.base_state, runs[r].shocks[i])]]
    /\ UNCHANGED <<inputs, bank, config, score, sample, stats, zk, net>>

\* lines 91-93: the thread scores its shocked state and the collect writes
\* the score to the path's slot
Finish(r, w) ==
    /\ runs[r].pc = "eval"
    /\ CanFinish(runs[r], w)
    /\ LET i == runs[r].worker[w]
           k == SlotOf(runs[r], i)
       IN runs' = [runs EXCEPT ![r] =
                     [@ EXCEPT !.slots[k] = compute_fragility(runs[r].shocked[w], inputs.lag_config),
                               !.writes[k] = @ + 1,
                               !.worker[w] = 0,
                               !.shocked[w] = NoState,
                               !.out_of_order =
                                   @ \/ \E j \in 1..(i - 1) : runs[r].writes[j] = 0]]
    /\ UNCHANGED <<inputs, bank, config, score, sample, stats, zk, net>>

\* lines 95-115: after the join, the statistics and the result
Aggregate(r) ==
    /\ runs[r].pc = "eval"
    /\ JoinReady(runs[r])
    /\ runs' = [runs EXCEPT ![r] =
                  IF StatsPanics(runs[r].slots)
                  THEN [@ EXCEPT !.pc = "panicked"]
                  ELSE [@ EXCEPT !.pc = "done", !.result = Summarize(runs[r].slots)]]
    /\ UNCHANGED <<inputs, bank, config, score, sample, stats, zk, net>>

\* ------------------------------------------------------- specifications

\* the base states of the runs: the documented example at one thousandth of
\* its size, and the same with a total_assets that is not a number
BaseStates ==
    {BankState(Lit(10), Lit(100), Frac(12, 10), Frac(5, 2)),
     BankState(Lit(10), NaN, Frac(12, 10), Frac(5, 2))}

Seeds == {42, 7}

\* the default shock size, one that drives fields below zero, and NaN
ShockSizes == {Lit(2), Lit(150), NaN}

Init ==
    /\ inputs \in [base_state : BaseStates,
                   lag_config : {DefaultLagrangianConfig},
                   num_simulations : 0..MaxPaths,
                   seed : Seeds,
                   shock_size : ShockSizes]
    /\ runs = [r \in Runs |-> NewRun]
    /\ bank = NoState
    /\ config = DefaultLagrangianConfig
    /\ score = [done |-> FALSE, v |-> Empty]
    /\ sample = <<>>
    /\ stats = [pc |-> "todo", r |-> NoResult]
    /\ zk = NoProver
    /\ net = NoEngine

Next ==
    \E r \in Runs :
        \/ Start(r)
        \/ GenerateShock(r)
        \/ StartParallel(r)
        \/ \E w \in Workers, i \in 1..MaxPaths : Claim(r, w, i)
        \/ \E w \in Workers : Finish(r, w)
        \/ Aggregate(r)

Spec == Init /\ [][Next]_vars

\* The calling thread runs its statements one after the other and every
\* thread of the pool is scheduled again and again by the host: each step
\* that stays possible is taken.
Fairness ==
    \A r \in Runs :
        /\ WF_vars(Start(r))
        /\ WF_vars(GenerateShock(r))
        /\ WF_vars(StartParallel(r))
        /\ WF_vars(Aggregate(r))
        /\ \A w \in Workers :
               /\ WF_vars(\E i \in 1..MaxPaths : Claim(r, w, i))
               /\ WF_vars(Finish(r, w))

\* the runs checked for termination: the documented example with the
\* default seed, every path count, a valid and an invalid shock size
InitFair ==
    /\ inputs \in [base_state : {BankState(Lit(10), Lit(100), Frac(12, 10), Frac(5, 2))},
                   lag_config : {DefaultLagrangianConfig},
                   num_simulations : 0..MaxPaths,
                   seed : {42},
                   shock_size : {Lit(2), NaN}]
    /\ runs = [r \in Runs |-> NewRun]
    /\ bank = NoState
    /\ config = DefaultLagrangianConfig
    /\ score = [done |-> FALSE, v |-> Empty]
    /\ sample = <<>>
    /\ stats = [pc |-> "todo", r |-> NoResult]
    /\ zk = NoProver
    /\ net = NoEngine

SpecFair == InitFair /\ [][Next]_vars /\ Fairness

\* ---------------------------------- the scoring function on its own

\* compute_fragility is applied to the chosen state and configuration
Score ==
    /\ ~score.done
    /\ score' = [done |-> TRUE, v |-> compute_fragility(bank, config)]
    /\ UNCHANGED <<inputs, runs, bank, config, sample, stats, zk, net>>

\* capital below, at and above the constraint for total_assets 100 and the
\* minimum ratios below; liquidity ratios negative, zero, positive and not
\* finite; entropy indices from far below zero to far above the entropy of
\* any portfolio (log2 of the number of positions)
Tier1Inputs ==
    {Lit(0), Lit(8), Frac(81, 10), Frac(17, 2), Lit(10), Lit(20), NaN}
LiquidityInputs ==
    {Frac(-1, 10), Frac(-1, 5), Lit(0), Frac(1, 2), Frac(4, 5), Lit(1),
     Frac(3, 2), PInf, NaN}
PositiveLiquidity == {Frac(1, 2), Frac(4, 5), Lit(1), Frac(3, 2)}
EntropyInputs == {Lit(-40), Lit(0), Lit(2), Frac(7, 2), Lit(25), Lit(30)}
SensitivityInputs == {Lit(-100), Lit(0), Lit(2), Lit(1500)}
MinCapitalInputs == {Frac(8, 100), Frac(10, 100)}

InitScore ==
    /\ inputs = [base_state |-> NoState, lag_config |-> DefaultLagrangianConfig,
                 num_simulations |-> 0, seed |-> 0, shock_size |-> Lit(0)]
    /\ runs = [r \in Runs |-> NewRun]
    /\ bank \in {BankState(t, Lit(100), l, e) :
                   t \in Tier1Inputs, l \in LiquidityInputs, e \in EntropyInputs}
    /\ config \in {LagrangianConfig(sv, m) :
                     sv \in SensitivityInputs, m \in MinCapitalInputs}
    /\ score = [done |-> FALSE, v |-> Empty]
    /\ sample = <<>>
    /\ stats = [pc |-> "todo", r |-> NoResult]
    /\ zk = NoProver
    /\ net = NoEngine

NextScore == Score

SpecScore == InitScore /\ [][NextScore]_vars

\* -------------------------------------- the statistics on their own

\* lines 95-115 of run_simulation on a score vector
Summarise ==
    /\ stats.pc = "todo"
    /\ stats' = IF StatsPanics(sample)
                THEN [pc |-> "panicked", r |-> NoResult]
                ELSE [pc |-> "done", r |-> Summarize(sample)]
    /\ UNCHANGED <<inputs, runs, bank, config, score, sample, zk, net>>

\* score vectors of every length up to MaxSample: element i is
\* (m * i + c) mod 101, a score between 0 and 100
Generators == {<<0, 7>>, <<1, 0>>, <<37, 5>>, <<100, 3>>}
SampleOf(n, g) == [i \in 1..n |-> Lit((g[1] * i + g[2]) % 101)]

InitStats ==
    /\ inputs = [base_state |-> NoState, lag_config |-> DefaultLagrangianConfig,
                 num_simulations |-> 0, seed |-> 0, shock_size |-> Lit(0)]
    /\ runs = [r \in Runs |-> NewRun]
    /\ bank = NoState
    /\ config = DefaultLagrangianConfig
    /\ score = [done |-> FALSE, v |-> Empty]
    /\ sample \in {SampleOf(n, g) : n \in 0..MaxSample, g \in Generators}
    /\ stats = [pc |-> "todo", r |-> NoResult]
    /\ zk = NoProver
    /\ net = NoEngine

NextStats == Summarise

SpecStats == InitStats /\ [][NextStats]_vars

\* -------------------------------------------- the prover on its own

\* the state of the tests (assets 1000, liabilities 900, equity 100,
\* leverage 9.0), states whose encoding satisfies the circuit for some
\* score, and a state with a leverage that is not a number
ProofStates ==
    {ProverState(Lit(1000), Lit(900), Lit(100), Lit(9)),
     ProverState(Lit(1000), Lit(900), Lit(100), Frac(9, 100)),
     ProverState(Lit(901), Lit(900), Lit(1), Lit(9)),
     ProverState(Lit(0), Lit(0), Lit(0), Lit(0)),
     ProverState(Lit(1000), Lit(900), Lit(100), NaN)}

\* the score of the tests (15.0) and the scores that the encodings above need
ProofScores == {Lit(15), Lit(9), Frac(9, 10), Frac(9, 1000), Lit(0)}


\* prover.prove(&state, fragility)
Prove ==
    /\ zk.pc = "setup"
    /\ zk' = [zk EXCEPT !.pc = "proved",
                         !.proof = prove(zk.state, zk.fragility_score)]
    /\ UNCHANGED <<inputs, runs, bank, config, score, sample, stats, net>>

\* prover.verify(&proof, fragility) with the score of the proof or another
Verify ==
    /\ zk.pc = "proved"
    /\ \E f \in ProofScores :
         zk' = [zk EXCEPT !.pc = "verified",
                          !.verify_score = f,
                          !.verified = verify(zk.proof, f)]
    /\ UNCHANGED <<inputs, runs, bank, config, score, sample, stats, net>>

InitProof ==
    /\ inputs = [base_state |-> NoState, lag_config |-> DefaultLagrangianConfig,
                 num_simulations |-> 0, seed |-> 0, shock_size |-> Lit(0)]
    /\ runs = [r \in Runs |-> NewRun]
    /\ bank = NoState
    /\ config = DefaultLagrangianConfig
    /\ score = [done |-> FALSE, v |-> Empty]
    /\ sample = <<>>
    /\ stats = [pc |-> "todo", r |-> NoResult]
    /\ zk \in {[NoProver EXCEPT !.pc = "setup", !.state = st, !.fragility_score = f] :
                 st \in ProofStates, f \in ProofScores}
    /\ net = NoEngine

NextProof == Prove \/ Verify

SpecProof == InitProof /\ [][NextProof]_vars

\* ------------------------------------ the ingestion engine on its own

\* the packets of the model: finite scores and one that is not a number
Packets == {DataPacket(1, Lit(15)), DataPacket(2, Lit(0)), DataPacket(3, NaN)}

\* the payloads gossip messages carry: the JSON of every packet, as a peer
\* publishes it, and bytes that are no JSON
Payloads == {to_vec(p) : p \in Packets} \cup {Garbage}

\* sender.send(packet).await on a clone of data_tx: the packet joins the
\* channel when there is room
Send(p) ==
    /\ net.pc # "none"
    /\ Len(net.sent) < MaxSends
    /\ Len(net.chan) < ChannelCapacity
    /\ net' = [net EXCEPT !.chan = Append(@, p), !.sent = Append(@, p)]
    /\ UNCHANGED <<inputs, runs, bank, config, score, sample, stats, zk>>

\* process_events is called (again)
Call ==
    /\ net.pc \in {"idle", "returned"}
    /\ net' = [net EXCEPT !.pc = "loop", !.ret = NoReturn, !.last = NoEvent]
    /\ UNCHANGED <<inputs, runs, bank, config, score, sample, stats, zk>>

\* lines 125-138, first branch of select!: a gossip message arrives
GossipMessage(d) ==
    /\ net.pc = "loop"
    /\ net' = [net EXCEPT
                 !.last = [kind |-> "message", data |-> d, published |-> FALSE],
                 !.ret = OnMessage(d),
                 !.pc = IF OnMessage(d).kind = "none" THEN "loop" ELSE "returned"]
    /\ UNCHANGED <<inputs, runs, bank, config, score, sample, stats, zk>>

\* line 136: any other swarm event
OtherEvent ==
    /\ net.pc = "loop"
    /\ net' = [net EXCEPT
                 !.last = [kind |-> "other", data |-> Garbage, published |-> FALSE]]
    /\ UNCHANGED <<inputs, runs, bank, config, score, sample, stats, zk>>

\* lines 139-143, second branch of select!: the oldest packet of the channel
\* is received and published (lines 113-119); gossipsub accepts it or not
LocalPacket(published) ==
    /\ net.pc = "loop"
    /\ net.chan # <<>>
    /\ LET p == Head(net.chan)
       IN net' = [net EXCEPT
                    !.chan = Tail(@),
                    !.taken = Append(@, [packet |-> p, published |-> published]),
                    !.topic = IF published THEN Append(@, to_vec(p)) ELSE @,
                    !.last = [kind |-> "local", data |-> to_vec(p),
                              published |-> published],
                    !.ret = OnLocal(p, published),
                    !.pc = IF OnLocal(p, published).kind = "none"
                           THEN "loop" ELSE "returned"]
    /\ UNCHANGED <<inputs, runs, bank, config, score, sample, stats, zk>>

InitNet ==
    /\ inputs = [base_state |-> NoState, lag_config |-> DefaultLagrangianConfig,
                 num_simulations |-> 0, seed |-> 0, shock_size |-> Lit(0)]
    /\ runs = [r \in Runs |-> NewRun]
    /\ bank = NoState
    /\ config = DefaultLagrangianConfig
    /\ score = [done |-> FALSE, v |-> Empty]
    /\ sample = <<>>
    /\ stats = [pc |-> "todo", r |-> NoResult]
    /\ zk = NoProver
    /\ net = [NoEngine EXCEPT !.pc = "idle"]

NextNet ==
    \/ \E p \in Packets : Send(p)
    \/ Call
    \/ \E d \in Payloads : GossipMessage(d)
    \/ OtherEvent
    \/ \E published \in BOOLEAN : LocalPacket(published)

SpecNet == InitNet /\ [][NextNet]_vars

\* ------------------------------------------------------------ properties

\* the score the code owes path i of run r: the base state perturbed by
\* shock tuple i, scored
PathScore(r, i) ==
    compute_fragility(Perturb(inputs.base_state, runs[r].shocks[i]),
                      inputs.lag_config)

\* some two scores of the sequence differ
NotAllEqual(fr) == \E i, j \in 1..Len(fr) : fr[i] # fr[j]

\* C1: two runs on the same base state, scoring configuration, seed, path
\* count and shock size return the same per-path score sequence, whatever
\* the concurrency hint, the pool and the order of completion of each run.
C1_Determinism ==
    \A a, b \in Runs :
        runs[a].pc = "done" /\ runs[b].pc = "done"
            => runs[a].result.fragilities = runs[b].result.fragilities

\* two finished runs that differ in hint, pool and completion order and
\* whose scores are not all the same
C1_Witness ==
    /\ runs[1].pc = "done"
    /\ runs[2].pc = "done"
    /\ runs[1].num_threads # runs[2].num_threads
    /\ runs[1].pool # runs[2].pool
    /\ runs[1].out_of_order
    /\ ~runs[2].out_of_order
    /\ NotAllEqual(runs[1].result.fragilities)

\* C2: the returned score sequence has exactly N elements and element i is
\* the score of the base state perturbed by shock tuple i, in every
\* interleaving; the sort made for the statistics leaves it as collected.
C2_IndexOrder ==
    \A r \in Runs :
        runs[r].pc = "done" /\ inputs.num_simulations >= 1 =>
            /\ Len(runs[r].result.fragilities) = inputs.num_simulations
            /\ \A i \in 1..inputs.num_simulations :
                   runs[r].result.fragilities[i] = PathScore(r, i)

\* a result whose paths completed out of index order and whose scores are
\* not ascending
C2_Witness ==
    \E r \in Runs :
        /\ runs[r].pc = "done"
        /\ runs[r].out_of_order
        /\ \E i \in 1..(Len(runs[r].result.fragilities) - 1) :
               FLt(runs[r].result.fragilities[i + 1], runs[r].result.fragilities[i])

\* the generator state after k draws from the seed
RECURSIVE StreamState(_, _)
StreamState(seed, k) ==
    IF k = 0 THEN SeedFromU64(seed) ELSE NextRng(StreamState(seed, k - 1))

\* shock tuple i of the one seeded stream: draws 4(i-1)+1 .. 4i
StreamTuple(seed, sd, i) ==
    [j \in 1..4 |-> NormalSample(StreamState(seed, 4 * (i - 1) + j), sd)]

\* every shock is drawn: the vector holds the first N tuples of the stream
AllShocksDrawn(r) ==
    /\ Len(runs[r].shocks) = inputs.num_simulations
    /\ \A i \in 1..inputs.num_simulations :
           runs[r].shocks[i] = StreamTuple(inputs.seed, inputs.shock_size, i)
    /\ runs[r].rng = StreamState(inputs.seed, 4 * inputs.num_simulations)

\* C3: all N shock tuples come from one seeded stream, in path order, and
\* the last is drawn before the first path is evaluated; nothing is drawn
\* during the parallel phase.
C3_EagerSequentialShocks ==
    /\ [](\A r \in Runs : runs[r].pc \in {"eval", "done"} => AllShocksDrawn(r))
    /\ [][\A r \in Runs :
            /\ runs'[r].shocks # runs[r].shocks =>
                   /\ runs[r].pc = "gen"
                   /\ runs[r].claimed = {}
                   /\ runs'[r].shocks =
                          Append(runs[r].shocks,
                                 StreamTuple(inputs.seed, inputs.shock_size,
                                             Len(runs[r].shocks) + 1))
            /\ runs'[r].rng # runs[r].rng => runs[r].pc \in {"idle", "gen"}]_vars

\* a thread is evaluating a path of a run of several paths
C3_Witness ==
    \E r \in Runs, w \in Workers :
        /\ runs[r].pc = "eval"
        /\ runs[r].worker[w] # 0
        /\ inputs.num_simulations = MaxPaths
        /\ AllShocksDrawn(r)

\* C4: each slot is written once, by the thread that evaluated its path, and
\* the statistics read the slots only after every slot has been written.
C4_WriteOnceReadAfter ==
    \A r \in Runs :
        /\ \A i \in 1..Len(runs[r].writes) :
               /\ runs[r].writes[i] <= 1
               /\ runs[r].writes[i] = 1 =>
                      /\ i \in runs[r].claimed
                      /\ runs[r].slots[i] # Empty
                      /\ \A w \in Workers : runs[r].worker[w] # i
               /\ runs[r].writes[i] = 0 => runs[r].slots[i] = Empty
        /\ runs[r].pc = "done" =>
               /\ Len(runs[r].writes) = inputs.num_simulations
               /\ \A i \in 1..inputs.num_simulations : runs[r].writes[i] = 1

\* a result of a run on two threads whose paths completed out of order
C4_Witness ==
    \E r \in Runs :
        /\ runs[r].pc = "done"
        /\ runs[r].pool = MaxWorkers
        /\ runs[r].out_of_order
        /\ inputs.num_simulations = MaxPaths

\* C5: a run of zero paths (with a valid shock size) does not crash: it
\* reports an empty result.
C5_EmptyRunNoCrash ==
    \A r \in Runs :
        inputs.num_simulations = 0 /\ IsFin(inputs.shock_size)
            => runs[r].pc # "panicked"

\* a field of the base state or of the simulation configuration is not finite
InvalidInput ==
    \/ ~IsFin(inputs.shock_size)
    \/ ~IsFin(inputs.base_state.tier1_capital)
    \/ ~IsFin(inputs.base_state.total_assets)
    \/ ~IsFin(inputs.base_state.liquidity_coverage)
    \/ ~IsFin(inputs.base_state.entropy_index)

\* C6: a run on an invalid input is rejected before any shock is drawn or
\* any path evaluated, without a crash and without coercing the value.
C6_InvalidInputRejected ==
    \A r \in Runs :
        InvalidInput => runs[r].pc \notin {"gen", "eval", "done", "panicked"}

\* C7: for every result of a run of N >= 1 paths,
\* var_95 <= var_99 <= max_fragility.
C7_QuantileOrder ==
    stats.pc = "done" =>
        /\ FLe(stats.r.var_95, stats.r.var_99)
        /\ FLe(stats.r.var_99, stats.r.max_fragility)

\* a result whose three figures are different
C7_Witness ==
    /\ stats.pc = "done"
    /\ FLt(stats.r.var_95, stats.r.var_99)
    /\ FLt(stats.r.var_99, stats.r.max_fragility)

\* C8: compute_fragility returns a number between 0 and 100 for every
\* state and configuration.
C8_ScoreInRange ==
    score.done =>
        /\ IsFin(score.v)
        /\ FLe(Lit(0), score.v)
        /\ FLe(score.v, Lit(100))

\* a score whose normalised value was NaN, and one whose normalised value
\* was outside the range
C8_Witness ==
    /\ score.done
    /\ FLe(bank.liquidity_coverage, Lit(0))
    /\ ~(FLe(Lit(0), NormalizedScore(bank, config))
         /\ FLe(NormalizedScore(bank, config), Lit(100)))

\* C9: a liquidity ratio <= 0 counts as maximal liquidity stress: the score
\* of such a state is at least the score of the same state with any
\* positive liquidity ratio (stated for the states whose other fields are
\* ordinary: finite capital, entropy index >= 0, sensitivity >= 0).
C9_NonPositiveLiquidityIsMaximalStress ==
    /\ score.done
    /\ FLe(bank.liquidity_coverage, Lit(0))
    /\ IsFin(bank.liquidity_coverage)
    /\ IsFin(bank.tier1_capital)
    /\ FLe(Lit(0), bank.entropy_index)
    /\ FLe(Lit(0), config.lambda_sensitivity)
    =>
        \A l \in PositiveLiquidity :
            FLe(compute_fragility([bank EXCEPT !.liquidity_coverage = l], config),
                score.v)

\* the fields of a shocked state
Fields == {"tier1_capital", "total_assets", "liquidity_coverage", "entropy_index"}

\* the shock component that acts on a field
ShockIndex(f) ==
    CASE f = "total_assets" -> 1
      [] f = "liquidity_coverage" -> 2
      [] f = "tier1_capital" -> 3
      [] OTHER -> 4

\* C10: every shocked state handed to the scoring function has fields >= 0,
\* each max(0, field * (1 + shock * 0.01)) of the base state and the path's
\* shock tuple, and the base state is not changed by the run.
C10_PerturbedNonNegative ==
    /\ [](\A r \in Runs, w \in Workers :
            runs[r].worker[w] # 0 =>
                \A f \in Fields :
                    /\ FLe(Lit(0), runs[r].shocked[w][f])
                    /\ runs[r].shocked[w][f] =
                         FMax(FMul(inputs.base_state[f],
                                   FAdd(Lit(1),
                                        FMul(runs[r].shocks[runs[r].worker[w]][ShockIndex(f)],
                                             Frac(1, 100)))),
                              Lit(0)))
    /\ [][inputs'.base_state = inputs.base_state]_vars

\* a shocked state with a field that the shock drove below zero
C10_Witness ==
    \E r \in Runs, w \in Workers :
        /\ runs[r].worker[w] # 0
        /\ \E f \in Fields :
               /\ runs[r].shocked[w][f] = Lit(0)
               /\ FLt(PerturbFieldUnclamped(inputs.base_state[f],
                                            runs[r].shocks[runs[r].worker[w]][ShockIndex(f)]),
                      Lit(0))

\* the value at 0-based rank k of the scores in ascending order, given by
\* counting: at most k scores are below it and more than k are not above it
OrderStatistic(s, k) ==
    CHOOSE v \in {s[i] : i \in 1..Len(s)} :
        /\ Cardinality({j \in 1..Len(s) : FLt(s[j], v)}) <= k
        /\ Cardinality({j \in 1..Len(s) : FLe(s[j], v)}) > k

\* C11: for N >= 1 and q in {0.95, 0.99} the reported Value-at-Risk is the
\* element at index min(floor(q * N), N - 1) of the scores in ascending
\* order, and max_fragility is the last element of that order; for N = 1
\* the three figures are the single score.
C11_QuantileIndex ==
    stats.pc = "done" /\ Len(sample) >= 1 =>
        LET n == Len(sample)
        IN /\ stats.r.var_95 = OrderStatistic(sample, Min((95 * n) \div 100, n - 1))
           /\ stats.r.var_99 = OrderStatistic(sample, Min((99 * n) \div 100, n - 1))
           /\ stats.r.max_fragility = OrderStatistic(sample, n - 1)
           /\ \A i \in 1..n : FLe(sample[i], stats.r.max_fragility)
           /\ n = 1 => /\ stats.r.var_95 = sample[1]
                       /\ stats.r.var_99 = sample[1]
                       /\ stats.r.max_fragility = sample[1]

\* a result on a sample that is not in ascending order and is long enough
\* for neither index to be clamped: the three figures are different scores
C11_Witness ==
    /\ stats.pc = "done"
    /\ Len(sample) = MaxSample
    /\ (99 * Len(sample)) \div 100 < Len(sample) - 1
    /\ \E i \in 1..(Len(sample) - 1) : FLt(sample[i + 1], sample[i])
    /\ stats.r.var_95 # stats.r.var_99
    /\ stats.r.var_99 # stats.r.max_fragility

\* the finite capital values of the scoring inputs
FiniteTier1 == {t \in Tier1Inputs : IsFin(t)}

\* C12: the score does not decrease as the capital buffer shrinks: for two
\* states that differ only in tier1_capital, the one with the smaller
\* buffer scores at least as high, also across the boundary between the
\* exponential branch and the saturation constant (stated for the states
\* whose other fields are ordinary: liquidity ratio > 0, entropy index >= 0,
\* sensitivity >= 0).
C12_MonotoneInSeverity ==
    /\ score.done
    /\ IsFin(bank.tier1_capital)
    /\ IsFin(bank.liquidity_coverage)
    /\ FLt(Lit(0), bank.liquidity_coverage)
    /\ FLe(Lit(0), bank.entropy_index)
    /\ FLe(Lit(0), config.lambda_sensitivity)
    =>
        \A t \in FiniteTier1 :
            FLe(t, bank.tier1_capital) =>
                FLe(score.v,
                    compute_fragility([bank EXCEPT !.tier1_capital = t], config))

\* the threads of run r that are evaluating a path
Busy(r) == {w \in Workers : runs[r].worker[w] # 0}

\* C13: the pool of a run is sized by the concurrency hint: with a hint
\* h > 0 at most h paths are being evaluated at the same time, and with
\* hint 0 the run uses the available parallelism and does not fail for it.
C13_PoolSizedByHint ==
    \A r \in Runs :
        /\ runs[r].num_threads > 0 =>
               Cardinality(Busy(r)) <= runs[r].num_threads
        /\ runs[r].num_threads = 0 /\ runs[r].pc \in {"eval", "done"} =>
               Cardinality(Busy(r)) <= runs[r].pool

\* C14: under fair scheduling every run of N >= 1 paths on finite inputs
\* returns a result with all N scores; a thread that holds a path never
\* waits for another thread, and the run waits only at the join, which it
\* passes once all N scores are written.
C14_EventuallyReturns ==
    /\ \A r \in Runs :
           (inputs.num_simulations >= 1 /\ ~InvalidInput)
               ~> (/\ runs[r].pc = "done"
                   /\ Len(runs[r].result.fragilities) = inputs.num_simulations)
    /\ [](\A r \in Runs :
             runs[r].pc = "eval" =>
                 /\ \A w \in Busy(r) : ENABLED Finish(r, w)
                 /\ (\A i \in 1..inputs.num_simulations : runs[r].writes[i] = 1)
                        => ENABLED Aggregate(r))

\* both runs have returned, on finite inputs, after evaluating the most
\* paths on the most threads with a completion out of index order
C14_Witness ==
    /\ ~InvalidInput
    /\ inputs.num_simulations = MaxPaths
    /\ \A r \in Runs : runs[r].pc = "done"
    /\ \E r \in Runs : runs[r].pool = MaxWorkers /\ runs[r].out_of_order

\* C15: a state whose capital ratio is below the regulatory minimum of the
\* configuration and whose liquidity ratio is below 1 scores above 70
\* (stated for the states whose other fields are ordinary: total assets > 0,
\* a finite liquidity ratio, entropy index >= 0, sensitivity >= 0).
C15_UndercapitalizedScoresHigh ==
    /\ score.done
    /\ FLe(Lit(0), config.lambda_sensitivity)
    /\ FLt(Lit(0), bank.total_assets)
    /\ FLt(capital_adequacy_ratio(bank), config.regulatory_min_capital)
    /\ IsFin(bank.liquidity_coverage)
    /\ FLt(bank.liquidity_coverage, Lit(1))
    /\ FLe(Lit(0), bank.entropy_index)
    =>
        FLt(Lit(70), score.v)

\* the capital ratio is well above the regulatory minimum: at least twice it
WellAboveMinimum(b, c) ==
    /\ FLt(Lit(0), b.total_assets)
    /\ FLe(FMul(Lit(2), c.regulatory_min_capital), capital_adequacy_ratio(b))

\* C16 as claimed: a state whose capital ratio is well above the regulatory
\* minimum and whose liquidity ratio is >= 1 scores below 50, whatever its
\* entropy index (>= 0, as every entropy is) and the sensitivity (>= 0).
C16_WellCapitalizedAnyEntropy ==
    /\ score.done
    /\ FLe(Lit(0), config.lambda_sensitivity)
    /\ WellAboveMinimum(bank, config)
    /\ FLe(Lit(1), bank.liquidity_coverage)
    /\ FLe(Lit(0), bank.entropy_index)
    =>
        FLt(score.v, Lit(50))

\* C16 as amended: a state whose capital is above the regulatory minimum
\* (constraint distance > 0) and whose liquidity ratio is >= 1 scores below
\* 50 when its entropy index is between 0 and 25 and the sensitivity is
\* between 0 and the default 2: then lambda <= 2, the entropy penalty is at
\* most 37.5 and the liquidity stress at most 10, so the raw score is < 50.
C16_WellCapitalizedBoundedEntropy ==
    /\ score.done
    /\ FLe(Lit(0), config.lambda_sensitivity)
    /\ FLe(config.lambda_sensitivity, Lit(2))
    /\ FLt(Lit(0), ConstraintDistance(bank, config))
    /\ FLe(Lit(1), bank.liquidity_coverage)
    /\ FLe(Lit(0), bank.entropy_index)
    /\ FLe(bank.entropy_index, Lit(25))
    =>
        FLt(score.v, Lit(50))

\* the largest raw score the amended claim covers: capital just above the
\* minimum, liquidity ratio 1, entropy index 25, a score just below 50
C16_Witness ==
    /\ score.done
    /\ config = DefaultLagrangianConfig
    /\ FLt(Lit(0), ConstraintDistance(bank, config))
    /\ ~WellAboveMinimum(bank, config)
    /\ bank.liquidity_coverage = Lit(1)
    /\ bank.entropy_index = Lit(25)
    /\ FLt(Lit(49), score.v)
    /\ FLt(score.v, Lit(50))

\* the state and the score of test_proof_verification
TestState == ProverState(Lit(1000), Lit(900), Lit(100), Lit(9))
TestScore == Lit(15)

\* C17: the proof that prove makes for the state and the score of the test
\* (assets 1000, liabilities 900, equity 100, leverage 9.0, score 15.0) is
\* accepted by verify with the same score: verify returns Ok(true).
C17_ProveVerifyRoundTrip ==
    /\ zk.pc = "verified"
    /\ zk.state = TestState
    /\ zk.fragility_score = TestScore
    /\ zk.verify_score = zk.fragility_score
    =>
        zk.verified = [ok |-> TRUE, value |-> TRUE]

\* the payload is the JSON of a DataPacket: JSON with a number for the score
IsPacketJson(d) == d.json /\ IsFin(d.fragility)

\* the packets taken from the channel so far, and those of them published
TakenPackets == [i \in 1..Len(net.taken) |-> net.taken[i].packet]
PublishedJson ==
    LET ok == SelectSeq(net.taken, LAMBDA t : t.published)
    IN [i \in 1..Len(ok) |-> to_vec(ok[i].packet)]

\* C18: process_events returns Ok(Some(packet)) only for a gossip message
\* whose payload is the JSON of a DataPacket, and then that packet; it never
\* returns Ok(None); it returns Err only when the publishing of a packet of
\* the local channel failed, and that packet is gone: neither published nor
\* back in the channel.  Local packets are taken in the order they were
\* sent and published in that order.  An undecodable message, another swarm
\* event and a published local packet leave it in its loop.
C18_ReturnsOnlyDecodedGossip ==
    /\ [](/\ net.ret.kind \in {"none", "some", "err"}
          /\ (net.pc = "returned") <=> (net.ret.kind # "none")
          /\ net.ret.kind = "some" =>
                 /\ net.last.kind = "message"
                 /\ IsPacketJson(net.last.data)
                 /\ to_vec(net.ret.packet) = net.last.data
          /\ net.ret.kind = "err" =>
                 /\ net.last.kind = "local"
                 /\ ~net.last.published
                 /\ ~net.taken[Len(net.taken)].published
          /\ TakenPackets \o net.chan = net.sent
          /\ net.topic = PublishedJson)
    /\ [][net.pc = "loop" /\ net' # net /\ net'.pc = "loop" /\ net'.sent = net.sent
            <=> /\ net.pc = "loop"
                /\ \/ net'.last.kind = "other"
                   \/ net'.last.kind = "message" /\ ~IsPacketJson(net'.last.data)
                   \/ net'.last.kind = "local" /\ net'.last.published
                /\ net'.sent = net.sent
                /\ net' # net]_vars

\* process_events has returned a gossip packet after one local packet was
\* dropped by a failed publish (and an error returned for it) and a later
\* one was published
C18_Witness ==
    /\ net.ret.kind = "some"
    /\ Len(net.taken) = 2
    /\ ~net.taken[1].published
    /\ net.taken[2].published
    /\ net.taken[1].packet # net.taken[2].packet
    /\ Len(net.topic) = 1

====
